---- MODULE Spec2Model ----
(***************************************************************************)
(* Model of the job-market database layer.                                 *)
(*                                                                         *)
(*   job_actions.py  add_job: one transaction that inserts a job row and   *)
(*                   get-or-creates and links its skills and categories.   *)
(*   init_db.py      Database._define_tables (the declared schema and its  *)
(*                   unique constraints) and Database._sync_schema (the    *)
(*                   reconciliation of the live schema).                   *)
(*                                                                         *)
(* The database is MySQL/InnoDB behind SQLAlchemy: a failed statement      *)
(* undoes only itself, the transaction stays open; a unique-index insert   *)
(* that meets another transaction's uncommitted row waits for it; plain    *)
(* SELECTs see committed rows and the transaction's own rows (the          *)
(* read-committed visibility the design assumes).                          *)
(***************************************************************************)
EXTENDS Integers, Sequences, FiniteSets, TLC

\* ---------------------------------------------------------------- bounds
MaxCalls == 2
MaxFaults == 1
MaxRuns == 2

\* ---------------------------------------------------------------- inputs
Procs == {"p1", "p2"}
Urls == {"https://x/1", "https://x/2"}
\* the skills_names lists callers pass
SkillLists == {<<>>, <<"Python", "SQL">>, <<"SQL", "Python">>,
               <<"Python", "Python">>}
\* a category's natural key (platform, category_id, sub_category_id)
FrontendDev == <<"cakeresume", "tech-frontend", "frontend-dev">>
\* a cat_data dict that lacks the key "category_id"
Malformed == <<"cakeresume">>
\* the categories_data lists callers pass
CategoryLists == {<<>>, <<FrontendDev>>, <<FrontendDev, FrontendDev>>,
                  <<Malformed>>}
\* the (skills_names, categories_data) a call is made with: a category
\* alone, a malformed category alone, two skills together with a category,
\* the two skills in the other order alone, a repeated skill together with a
\* repeated category
Arguments ==
    {a \in [skills_names : SkillLists, categories_data : CategoryLists] :
        \/ a.skills_names = <<>>
              /\ a.categories_data \in {<<FrontendDev>>, <<Malformed>>}
        \/ a.skills_names = <<"Python", "SQL">>
              /\ a.categories_data = <<FrontendDev>>
        \/ a.skills_names = <<"SQL", "Python">> /\ a.categories_data = <<>>
        \/ a.skills_names = <<"Python", "Python">>
              /\ a.categories_data = <<FrontendDev, FrontendDev>>}

Committed == "committed"

VARIABLES
    jobs,             \* rows of table jobs:            [id, job_url, tx, call]
    skills,           \* rows of table skills:          [id, name, tx, call]
    categories,       \* rows of table categories:      [id, key, tx, call]
    jobs_skills,      \* rows of table jobs_skills:     [job_id, skill_id, tx, call]
    jobs_categories,  \* rows of table jobs_categories: [job_id, category_id, tx, call]
    autoinc,          \* next AUTO_INCREMENT value of jobs, skills, categories
    frame,            \* per caller: the locals of its add_job call
    ncalls,           \* add_job calls started so far
    nfaults,          \* database faults that have happened so far
    live_tables,      \* names of the tables the live database has
    live_columns,     \* the live columns: [table, name, type, nullable]
    live_constraints, \* the live unique constraints: [table, column]
    collation,        \* the default collation of the live database
    sync,             \* per instance: the locals of its _sync_schema run
    nruns,            \* _sync_schema runs started so far
    settled           \* the last run to end succeeded, with no other run under way

vars == <<jobs, skills, categories, jobs_skills, jobs_categories, autoinc,
          frame, ncalls, nfaults,
          live_tables, live_columns, live_constraints, collation, sync, nruns,
          settled>>

db == <<jobs, skills, categories, jobs_skills, jobs_categories, autoinc>>

schema == <<live_tables, live_columns, live_constraints, collation, sync, nruns,
           settled>>

ingestion == <<db, frame, ncalls, nfaults>>

\* ------------------------------------------------------------ the schema
\* Column("job_url", String(500), nullable=False, unique=True): the rows an
\* insert of job_url collides with
JobsUniqueNone(job_url) == {}
JobsUnique(job_url) == {j \in jobs : j.job_url = job_url}

\* skills: Column("name", String(200), nullable=False, unique=True)
SkillsUniqueNone(name) == {}
SkillsUnique(name) == {s \in skills : s.name = name}

\* categories: unique on the natural key (platform, category_id, sub_category_id)
CategoriesUniqueNone(key) == {}
CategoriesUnique(key) == {c \in categories : c.key = key}

\* UniqueConstraint("job_id", "skill_id", name="uix_job_skill")
JobsSkillsUnique(job_id, skill_id) ==
    {e \in jobs_skills : e.job_id = job_id /\ e.skill_id = skill_id}

\* UniqueConstraint("job_id", "category_id", name="uix_job_category")
JobsCategoriesUnique(job_id, category_id) ==
    {e \in jobs_categories : e.job_id = job_id /\ e.category_id = category_id}

\* ------------------------------------------------- the database's behaviour
\* rows a SELECT of transaction p sees
Visible(rows, p) == {r \in rows : r.tx = Committed \/ r.tx = p}

\* an insert into a unique index waits while another open transaction holds
\* an uncommitted row with the same key
Blocked(conflicts, p) == \E r \in conflicts : r.tx # Committed /\ r.tx # p

\* the duplicate-key error (IntegrityError) of an insert that does not wait
Duplicate(conflicts, p) == conflicts # {} /\ ~Blocked(conflicts, p)

\* COMMIT of transaction p
CommitRows(rows, p) ==
    {IF r.tx = p THEN [r EXCEPT !.tx = Committed] ELSE r : r \in rows}

\* ROLLBACK of transaction p
RollbackRows(rows, p) == {r \in rows : r.tx # p}

\* --------------------------------------------------- the declared model
\* Database._define_tables, in the order of metadata.tables; of each table the
\* columns the reconciliation is followed on
Model ==
    << [table |-> "jobs",
        columns |-> << [name |-> "job_title", type |-> "VARCHAR(200)",
                        nullable |-> FALSE, unique |-> FALSE],
                       [name |-> "salary_min", type |-> "INTEGER",
                        nullable |-> TRUE, unique |-> FALSE] >>],
       [table |-> "skills",
        columns |-> << [name |-> "name", type |-> "VARCHAR(200)",
                        nullable |-> FALSE, unique |-> TRUE],
                       [name |-> "created_at", type |-> "DATETIME",
                        nullable |-> TRUE, unique |-> FALSE] >>] >>

ModelTables == {Model[t].table : t \in 1..Len(Model)}

\* the live columns a freshly created table has: metadata.create_all
DeclaredColumns(t) ==
    {[table |-> Model[t].table, name |-> Model[t].columns[k].name,
      type |-> Model[t].columns[k].type,
      nullable |-> Model[t].columns[k].nullable] : k \in 1..Len(Model[t].columns)}

\* the unique constraints a freshly created table has (unique=True)
DeclaredConstraints(t) ==
    {[table |-> Model[t].table, column |-> Model[t].columns[k].name] :
        k \in {j \in 1..Len(Model[t].columns) : Model[t].columns[j].unique}}

\* CREATE DATABASE ... CHARACTER SET utf8mb4 COLLATE utf8mb4_unicode_ci
CreatedCollation == "UTF8MB4_UNICODE_CI"
\* the collation of a database somebody else created: the server's default
\* for the character set, which the catalog does not spell out per column
ServerCollation == "DEFAULT"
Collations == {CreatedCollation, ServerCollation}

\* ---------------------------------------------------------------- add_job
NoValue == [kind |-> "none", value |-> 0]
ReturnNone == [kind |-> "None", value |-> 0]
ReturnId(id) == [kind |-> "id", value |-> id]
Raised == [kind |-> "raised", value |-> 0]

IdleFrame ==
    [pc |-> "idle", call |-> 0, job_url |-> "", skills_names |-> <<>>,
     categories_data |-> <<>>, i |-> 0, job_id |-> 0, skill_id |-> 0,
     category_id |-> 0, ret |-> NoValue, result |-> NoValue, cause |-> "",
     alone |-> TRUE, conn |-> FALSE]

Active(p) == frame[p].pc \notin {"idle", "done"}

\* the position after the statement at pc; the two for loops of lines 35 and 65
AfterJobOrSkill(f, i) ==
    IF i <= Len(f.skills_names) THEN "select_skill"
    ELSE IF Len(f.categories_data) >= 1 THEN "select_cat" ELSE "exit"

AfterCategory(f, i) ==
    IF i <= Len(f.categories_data) THEN "select_cat" ELSE "exit"

Instances == {"i1", "i2"}

IdleSync ==
    [pc |-> "idle", missing |-> {}, t |-> 0, ops |-> <<>>, log |-> <<>>,
     outcome |-> "", error |-> "", alone |-> TRUE, after_ok |-> FALSE]

\* no rows yet, no call under way
EmptyStore ==
    /\ jobs = {} /\ skills = {} /\ categories = {}
    /\ jobs_skills = {} /\ jobs_categories = {}
    /\ autoinc = [jobs |-> 1, skills |-> 1, categories |-> 1]
    /\ frame = [p \in Procs |-> IdleFrame]
    /\ ncalls = 0
    /\ nfaults = 0

\* Database.__init__ has run: the database was created by
\* _get_database_connection and every table by create_all
Init ==
    /\ EmptyStore
    /\ live_tables = ModelTables
    /\ live_columns = UNION {DeclaredColumns(t) : t \in 1..Len(Model)}
    /\ live_constraints = UNION {DeclaredConstraints(t) : t \in 1..Len(Model)}
    /\ collation = CreatedCollation
    /\ sync = [i \in Instances |-> IdleSync]
    /\ nruns = 0
    /\ settled = FALSE

\* the callers are interchangeable: of two that are not in a call, the next
\* call is taken to come from the one that has not called yet ("p1" first),
\* or else from the one whose last call is the older
FirstCaller(p) ==
    \A q \in Procs \ {p} :
        \/ Active(q)
        \/ IF frame[p].pc = "idle"
           THEN frame[q].pc # "idle" \/ p = "p1"
           ELSE frame[q].pc # "idle" /\ frame[p].call < frame[q].call

\* the two job_urls are interchangeable: "https://x/1" is the one used first
FirstUrl(u) ==
    \/ u = "https://x/1"
    \/ \E j \in jobs : j.job_url = "https://x/1"
    \/ \E q \in Procs : frame[q].job_url = "https://x/1"

\* lines 12-25: a call arrives, `with db.engine.connect()` and `with conn.begin()`
\* succeed and the transaction is open
Call(p) ==
    /\ ~Active(p)
    /\ FirstCaller(p)
    /\ ncalls < MaxCalls
    /\ \E u \in Urls, a \in Arguments :
       LET sk == a.skills_names
           cd == a.categories_data
       IN
         /\ FirstUrl(u)
         /\ frame' = [q \in Procs |->
                     IF q = p
                     THEN [IdleFrame EXCEPT !.pc = "insert_job",
                                            !.call = ncalls + 1,
                                            !.job_url = u,
                                            !.skills_names = sk,
                                            !.categories_data = cd,
                                            !.conn = TRUE,
                                            !.alone = \A r \in Procs \ {p} : ~Active(r)]
                     ELSE IF Active(q) THEN [frame[q] EXCEPT !.alone = FALSE]
                     ELSE frame[q]]
    /\ ncalls' = ncalls + 1
    /\ UNCHANGED <<db, nfaults, schema>>

\* line 22: db.engine.connect() raises (the database cannot be reached); the
\* statement is outside the try of line 26, so the exception leaves add_job
ConnectFails(p) ==
    /\ ~Active(p)
    /\ FirstCaller(p)
    /\ ncalls < MaxCalls
    /\ nfaults < MaxFaults
    /\ frame' = [frame EXCEPT ![p] =
                   [IdleFrame EXCEPT !.pc = "done", !.call = ncalls + 1,
                                     !.result = Raised, !.cause = "ConnectError",
                                     !.alone = TRUE]]
    /\ ncalls' = ncalls + 1
    /\ nfaults' = nfaults + 1
    /\ UNCHANGED <<db, schema>>

\* the call is over: the `with` of line 22 has released the connection, the
\* locals other than the arguments are gone (job_id is kept for the caller,
\* who gets it as the result)
ReturnHoldingConnection(f) ==
    [f EXCEPT !.pc = "done", !.i = 0, !.skill_id = 0, !.category_id = 0,
              !.job_id = IF f.ret = NoValue THEN @ ELSE 0, !.ret = NoValue]
Return(f) == [f EXCEPT !.pc = "done", !.i = 0, !.skill_id = 0, !.category_id = 0,
                       !.conn = FALSE,
                       !.job_id = IF f.ret = NoValue THEN @ ELSE 0,
                       !.ret = NoValue]

\* lines 109-112: except SQLAlchemyError: log, return None (still inside the
\* `with conn.begin()` block)
ExceptTagged(f, why) ==
    [f EXCEPT !.pc = "exit", !.ret = [kind |-> why, value |-> 0], !.cause = why]
Except(f, why) == [f EXCEPT !.pc = "exit", !.ret = ReturnNone, !.cause = why]

\* lines 28-30: insert the job row, take its generated id
InsertJob(p) ==
    LET f == frame[p]
        conflicts == JobsUnique(f.job_url)
    IN  /\ f.pc = "insert_job"
        /\ ~Blocked(conflicts, p)
        /\ IF Duplicate(conflicts, p)
           THEN /\ frame' = [frame EXCEPT ![p] = Except(f, "DuplicateJob")]
                /\ UNCHANGED <<jobs, autoinc>>
           ELSE /\ jobs' = jobs \cup {[id |-> autoinc.jobs, job_url |-> f.job_url,
                                       tx |-> p, call |-> f.call]}
                /\ autoinc' = [autoinc EXCEPT !.jobs = @ + 1]
                /\ frame' = [frame EXCEPT ![p] =
                               [f EXCEPT !.job_id = autoinc.jobs, !.i = 1,
                                         !.pc = AfterJobOrSkill(f, 1)]]
        /\ UNCHANGED <<skills, categories, jobs_skills, jobs_categories,
                       ncalls, nfaults, schema>>

\* lines 37-40: select(skills.id).where(name == skill_name).first()
SkillRowMissing(name, p) == {}
SkillRow(name, p) == {s \in Visible(skills, p) : s.name = name}

\* lines 36-43: look the skill up; found: use its id
SelectSkill(p) ==
    LET f == frame[p]
        skill_row == SkillRow(f.skills_names[f.i], p)
    IN  /\ f.pc = "select_skill"
        /\ frame' = [frame EXCEPT ![p] =
                       IF skill_row # {}
                       THEN [f EXCEPT !.skill_id = (CHOOSE s \in skill_row : TRUE).id,
                                      !.pc = "insert_job_skill"]
                       ELSE [f EXCEPT !.pc = "insert_skill"]]
        /\ UNCHANGED <<db, ncalls, nfaults, schema>>

\* lines 44-51: not found: insert the skill; a duplicate name is an
\* IntegrityError, which only the handler of line 109 catches
InsertSkill(p) ==
    LET f == frame[p]
        name == f.skills_names[f.i]
        conflicts == SkillsUnique(name)
    IN  /\ f.pc = "insert_skill"
        /\ ~Blocked(conflicts, p)
        /\ IF Duplicate(conflicts, p)
           THEN /\ frame' = [frame EXCEPT ![p] = Except(f, "SkillRace")]
                /\ UNCHANGED <<skills, autoinc>>
           ELSE /\ skills' = skills \cup {[id |-> autoinc.skills, name |-> name,
                                           tx |-> p, call |-> f.call]}
                /\ autoinc' = [autoinc EXCEPT !.skills = @ + 1]
                /\ frame' = [frame EXCEPT ![p] =
                               [f EXCEPT !.skill_id = autoinc.skills,
                                         !.pc = "insert_job_skill"]]
        /\ UNCHANGED <<jobs, categories, jobs_skills, jobs_categories,
                       ncalls, nfaults, schema>>

\* lines 53-63: insert the edge (job_id, skill_id); the IntegrityError of a
\* repeated edge is caught and skipped; then the next skill
JobSkillEdgesNone(f, p) == {}
JobSkillEdges(f, p) ==
    IF JobsSkillsUnique(f.job_id, f.skill_id) # {} THEN {}
    ELSE {[job_id |-> f.job_id, skill_id |-> f.skill_id, tx |-> p, call |-> f.call]}

\* lines 59-63 and 98-103: `except IntegrityError` around the edge insert
\* logs a warning; the loop goes on with the next entry
SkipEdgeUncaught(f, next) == Except(f, "EdgeExists")
SkipEdge(f, next) == next

InsertJobSkill(p) ==
    LET f == frame[p]
        next == IF f.i + 1 <= Len(f.skills_names)
                THEN [f EXCEPT !.i = @ + 1, !.pc = "select_skill"]
                ELSE [f EXCEPT !.i = 1, !.pc = AfterJobOrSkill(f, f.i + 1)]
    IN  /\ f.pc = "insert_job_skill"
        /\ jobs_skills' = jobs_skills \cup JobSkillEdges(f, p)
        /\ frame' = [frame EXCEPT ![p] =
                       IF JobsSkillsUnique(f.job_id, f.skill_id) # {}
                       THEN SkipEdge(f, next) ELSE next]
        /\ UNCHANGED <<jobs, skills, categories, jobs_categories, autoinc,
                       ncalls, nfaults, schema>>

\* lines 67-75: select(categories.id).where(platform, category_id,
\* sub_category_id all equal).first()
CategoryRow(key, p) == {c \in Visible(categories, p) : c.key = key}

\* lines 68-72: cat_data["platform"], cat_data["category_id"],
\* cat_data["sub_category_id"] all exist
WellFormed(cat_data) == Len(cat_data) = 3

\* lines 67-74: building the SELECT from a cat_data that lacks a key raises
\* KeyError, which `except SQLAlchemyError` does not catch: it leaves the
\* `with conn.begin()` block, which rolls back, and then add_job
KeyErrorRaised(p) ==
    LET f == frame[p]
    IN  /\ f.pc = "select_cat"
        /\ ~WellFormed(f.categories_data[f.i])
        /\ jobs' = RollbackRows(jobs, p)
        /\ skills' = RollbackRows(skills, p)
        /\ categories' = RollbackRows(categories, p)
        /\ jobs_skills' = RollbackRows(jobs_skills, p)
        /\ jobs_categories' = RollbackRows(jobs_categories, p)
        /\ frame' = [frame EXCEPT ![p] =
                       [Return(f) EXCEPT !.result = Raised, !.job_id = 0,
                                         !.cause = "KeyError"]]
        /\ UNCHANGED <<autoinc, ncalls, nfaults, schema>>

\* lines 66-78
SelectCategory(p) ==
    LET f == frame[p]
        cat_row == CategoryRow(f.categories_data[f.i], p)
    IN  /\ f.pc = "select_cat"
        /\ WellFormed(f.categories_data[f.i])
        /\ frame' = [frame EXCEPT ![p] =
                       IF cat_row # {}
                       THEN [f EXCEPT !.category_id = (CHOOSE c \in cat_row : TRUE).id,
                                      !.pc = "insert_job_cat"]
                       ELSE [f EXCEPT !.pc = "insert_cat"]]
        /\ UNCHANGED <<db, ncalls, nfaults, schema>>

\* lines 79-90
InsertCategory(p) ==
    LET f == frame[p]
        key == f.categories_data[f.i]
        conflicts == CategoriesUnique(key)
    IN  /\ f.pc = "insert_cat"
        /\ ~Blocked(conflicts, p)
        /\ IF Duplicate(conflicts, p)
           THEN /\ frame' = [frame EXCEPT ![p] = Except(f, "CategoryRace")]
                /\ UNCHANGED <<categories, autoinc>>
           ELSE /\ categories' = categories \cup
                                   {[id |-> autoinc.categories, key |-> key,
                                     tx |-> p, call |-> f.call]}
                /\ autoinc' = [autoinc EXCEPT !.categories = @ + 1]
                /\ frame' = [frame EXCEPT ![p] =
                               [f EXCEPT !.category_id = autoinc.categories,
                                         !.pc = "insert_job_cat"]]
        /\ UNCHANGED <<jobs, skills, jobs_skills, jobs_categories, ncalls, nfaults,
                       schema>>

\* lines 92-103
JobCategoryEdges(f, p) ==
    IF JobsCategoriesUnique(f.job_id, f.category_id) # {} THEN {}
    ELSE {[job_id |-> f.job_id, category_id |-> f.category_id, tx |-> p,
           call |-> f.call]}

InsertJobCategory(p) ==
    LET f == frame[p]
        next == [f EXCEPT !.i = @ + 1, !.pc = AfterCategory(f, f.i + 1)]
    IN  /\ f.pc = "insert_job_cat"
        /\ jobs_categories' = jobs_categories \cup JobCategoryEdges(f, p)
        /\ frame' = [frame EXCEPT ![p] =
                       IF JobsCategoriesUnique(f.job_id, f.category_id) # {}
                       THEN SkipEdge(f, next) ELSE next]
        /\ UNCHANGED <<jobs, skills, categories, jobs_skills, autoinc,
                       ncalls, nfaults, schema>>

\* the positions at which conn.execute runs a statement
StatementPcs == {"insert_job", "select_skill", "insert_skill", "insert_job_skill",
                 "select_cat", "insert_cat", "insert_job_cat"}

\* conn.execute is running a statement
AtStatement(f) ==
    /\ f.pc \in StatementPcs
    /\ f.pc = "select_cat" => WellFormed(f.categories_data[f.i])

\* a statement fails with an unexpected SQLAlchemyError (lock wait timeout,
\* data error, ...): InnoDB undoes the statement only, the transaction and
\* its earlier writes stay; the handler of line 109 returns None
StatementFails(p) ==
    /\ AtStatement(frame[p])
    /\ nfaults < MaxFaults
    /\ frame' = [frame EXCEPT ![p] = Except(frame[p], "DbError")]
    /\ nfaults' = nfaults + 1
    /\ UNCHANGED <<db, ncalls, schema>>

\* a statement fails and the server has rolled the whole transaction back
\* (deadlock victim, lost connection); the handler of line 109 returns None
TransactionAborted(p) ==
    /\ AtStatement(frame[p])
    /\ nfaults < MaxFaults
    /\ jobs' = RollbackRows(jobs, p)
    /\ skills' = RollbackRows(skills, p)
    /\ categories' = RollbackRows(categories, p)
    /\ jobs_skills' = RollbackRows(jobs_skills, p)
    /\ jobs_categories' = RollbackRows(jobs_categories, p)
    /\ frame' = [frame EXCEPT ![p] = Except(frame[p], "DbError")]
    /\ nfaults' = nfaults + 1
    /\ UNCHANGED <<autoinc, ncalls, schema>>

\* the rows the insert p is executing collides with
Conflicts(p) ==
    LET f == frame[p]
    IN  CASE f.pc = "insert_job" -> JobsUnique(f.job_url)
          [] f.pc = "insert_skill" -> SkillsUnique(f.skills_names[f.i])
          [] f.pc = "insert_cat" -> CategoriesUnique(f.categories_data[f.i])
          [] OTHER -> {}

\* the open transactions the insert of p waits for
WaitsFor(p) == {r.tx : r \in Conflicts(p)} \ {Committed, p}

\* two inserts wait for each other: InnoDB detects the deadlock and rolls one
\* of the two transactions back; its insert fails with an OperationalError,
\* and the handler of line 109 returns None
Deadlock(p) ==
    /\ \E q \in WaitsFor(p) : p \in WaitsFor(q)
    /\ jobs' = RollbackRows(jobs, p)
    /\ skills' = RollbackRows(skills, p)
    /\ categories' = RollbackRows(categories, p)
    /\ jobs_skills' = RollbackRows(jobs_skills, p)
    /\ jobs_categories' = RollbackRows(jobs_categories, p)
    /\ frame' = [frame EXCEPT ![p] = Except(frame[p], "Deadlock")]
    /\ UNCHANGED <<autoinc, ncalls, nfaults, schema>>

\* what leaving the `with conn.begin()` block without an exception does to
\* the rows of the transaction (lines 25, 107, 112)
EndTransaction(rows, p) == CommitRows(rows, p)

\* lines 105-107 and 112: `return job_id` / `return None` leave the
\* `with conn.begin()` block normally, which commits; the value is returned
Exit(p) ==
    LET f == frame[p]
    IN  /\ f.pc = "exit"
        /\ jobs' = EndTransaction(jobs, p)
        /\ skills' = EndTransaction(skills, p)
        /\ categories' = EndTransaction(categories, p)
        /\ jobs_skills' = EndTransaction(jobs_skills, p)
        /\ jobs_categories' = EndTransaction(jobs_categories, p)
        /\ frame' = [frame EXCEPT ![p] =
                       [Return(f) EXCEPT
                                 !.result = IF f.ret = NoValue
                                            THEN ReturnId(f.job_id) ELSE f.ret,
                                 !.cause = IF f.cause = "" THEN "ok" ELSE f.cause]]
        /\ UNCHANGED <<autoinc, ncalls, nfaults, schema>>

\* the COMMIT at the end of the `with conn.begin()` block fails: the block
\* rolls back and the exception leaves add_job (no handler encloses line 25)
CommitFails(p) ==
    LET f == frame[p]
    IN  /\ f.pc = "exit"
        /\ nfaults < MaxFaults
        /\ jobs' = RollbackRows(jobs, p)
        /\ skills' = RollbackRows(skills, p)
        /\ categories' = RollbackRows(categories, p)
        /\ jobs_skills' = RollbackRows(jobs_skills, p)
        /\ jobs_categories' = RollbackRows(jobs_categories, p)
        /\ frame' = [frame EXCEPT ![p] =
                       [Return(f) EXCEPT !.result = Raised, !.job_id = 0,
                                 !.cause = IF f.cause = "" THEN "CommitError"
                                           ELSE f.cause]]
        /\ nfaults' = nfaults + 1
        /\ UNCHANGED <<autoinc, ncalls, schema>>

Next ==
    \E p \in Procs :
        \/ Call(p)
        \/ ConnectFails(p)
        \/ InsertJob(p)
        \/ SelectSkill(p)
        \/ InsertSkill(p)
        \/ InsertJobSkill(p)
        \/ KeyErrorRaised(p)
        \/ SelectCategory(p)
        \/ InsertCategory(p)
        \/ InsertJobCategory(p)
        \/ StatementFails(p)
        \/ TransactionAborted(p)
        \/ Deadlock(p)
        \/ Exit(p)
        \/ CommitFails(p)

Spec == Init /\ [][Next]_vars

\* the steps of a call that need nothing but the interpreter going on and
\* the server answering: every statement, the resolution of a deadlock, and
\* leaving the `with` blocks
Step(p) ==
    \/ InsertJob(p)
    \/ SelectSkill(p)
    \/ InsertSkill(p)
    \/ InsertJobSkill(p)
    \/ KeyErrorRaised(p)
    \/ SelectCategory(p)
    \/ InsertCategory(p)
    \/ InsertJobCategory(p)
    \/ Deadlock(p)
    \/ Exit(p)

\* add_job under a Python interpreter that keeps running each call and a
\* server that keeps answering
LiveSpec == Init /\ [][Next]_vars /\ \A p \in Procs : WF_vars(Step(p))

\* ----------------------------------------------------------- _sync_schema
CharTypes == {"VARCHAR(100)", "VARCHAR(200)", "VARCHAR(500)", "TEXT"}

\* line 191: str(db_col_type).upper() of the type the inspector reports; the
\* catalog spells out the collation of a character column when it is not the
\* server's default for the character set, and the reflected type carries it
DbTypeStr(type) ==
    IF type \in CharTypes /\ collation # ServerCollation
    THEN <<type, "COLLATE", collation>>
    ELSE <<type>>

\* lines 192-194: str(model_col_type.compile(dialect)).upper()
ModelTypeStr(type) == <<type>>

\* lines 171-173: db_columns = {col["name"]: col for col in get_columns(table)}
GetColumns(table) ==
    LET cols == {c \in live_columns : c.table = table}
    IN  [n \in {c.name : c \in cols} |->
            LET c == CHOOSE c \in cols : c.name = n
            IN  [type |-> DbTypeStr(c.type), nullable |-> c.nullable]]

\* line 178
NeedsAdd(db_columns, col) == col.name \notin DOMAIN db_columns

\* lines 187-201
NeedsModify(db_columns, col) ==
    /\ col.name \in DOMAIN db_columns
    /\ \/ db_columns[col.name].type # ModelTypeStr(col.type)
       \/ db_columns[col.name].nullable # col.nullable

\* line 179: ALTER TABLE t ADD COLUMN {model_col.compile(dialect)}: compiling
\* a Column renders its name, not its definition, so no type follows
AddStmt(table, col) ==
    [op |-> "ADD", table |-> table, column |-> col.name, type |-> "",
     notnull |-> FALSE]

\* lines 207-212: ALTER TABLE t MODIFY COLUMN `name` TYPE [NOT NULL]
ModifyStmt(table, col) ==
    [op |-> "MODIFY", table |-> table, column |-> col.name, type |-> col.type,
     notnull |-> (col.nullable = FALSE)]

OperationsModifyFirst(t, db_columns) ==
    LET cols == Model[t].columns
        adds == SelectSeq(cols, LAMBDA c : NeedsAdd(db_columns, c))
        mods == SelectSeq(cols, LAMBDA c : NeedsModify(db_columns, c))
    IN  [k \in 1..Len(mods) |-> ModifyStmt(Model[t].table, mods[k])]
        \o [k \in 1..Len(adds) |-> AddStmt(Model[t].table, adds[k])]

\* lines 176-213 for one table: the statements its two loops execute, in order,
\* both loops reading the db_columns taken before the first of them
Operations(t, db_columns) ==
    LET cols == Model[t].columns
        adds == SelectSeq(cols, LAMBDA c : NeedsAdd(db_columns, c))
        mods == SelectSeq(cols, LAMBDA c : NeedsModify(db_columns, c))
    IN  [k \in 1..Len(adds) |-> AddStmt(Model[t].table, adds[k])]
        \o [k \in 1..Len(mods) |-> ModifyStmt(Model[t].table, mods[k])]

Syncing(i) == sync[i].pc \notin {"idle", "done"}

\* line 170: the next table of metadata.tables, or the end of the block
NextTable(f) ==
    IF f.t < Len(Model)
    THEN [f EXCEPT !.pc = "inspect", !.t = @ + 1, !.ops = <<>>]
    ELSE [f EXCEPT !.pc = "commit", !.ops = <<>>]

\* lines 162-163: a Database is constructed and its _sync_schema starts
StartSync(i) ==
    /\ ~Syncing(i)
    /\ (i = "i1" \/ sync["i1"].pc # "idle")
    /\ nruns < MaxRuns
    /\ sync' = [j \in Instances |->
                  IF j = i
                  THEN [IdleSync EXCEPT
                          !.pc = "create_all",
                          !.alone = \A o \in Instances \ {i} : ~Syncing(o),
                          !.after_ok = settled
                                       /\ \A o \in Instances \ {i} : ~Syncing(o)]
                  ELSE IF Syncing(j) THEN [sync[j] EXCEPT !.alone = FALSE]
                  ELSE sync[j]]
    /\ nruns' = nruns + 1
    /\ UNCHANGED <<live_tables, live_columns, live_constraints, collation, settled, ingestion>>

\* line 164: metadata.create_all(checkfirst=True) first asks the database
\* which of the declared tables it lacks
CheckFirst(i) ==
    LET missing == {t \in 1..Len(Model) : Model[t].table \notin live_tables}
    IN  /\ sync[i].pc = "create_all"
        /\ sync' = [sync EXCEPT ![i] =
                      IF missing = {} THEN [@ EXCEPT !.pc = "inspect", !.t = 1]
                      ELSE [@ EXCEPT !.pc = "create_tables", !.missing = missing]]
        /\ UNCHANGED <<live_tables, live_columns, live_constraints, collation,
                       nruns, settled, ingestion>>

\* the tables CREATE TABLE succeeds for: those found missing, in the order of
\* the model, up to the first that exists by now
Creatable(missing) ==
    {t \in missing :
        \A u \in missing : u <= t => Model[u].table \notin live_tables}

\* line 164: then create_all issues CREATE TABLE for each table it found
\* missing, with all its declared columns and constraints; CREATE TABLE of a
\* table that exists by now fails, and the error leaves Database() (line 164
\* is outside the try of line 167)
CreateAll(i) ==
    LET f == sync[i]
        made == Creatable(f.missing)
    IN  /\ f.pc = "create_tables"
        /\ live_tables' = live_tables \cup {Model[t].table : t \in made}
        /\ live_columns' = live_columns \cup UNION {DeclaredColumns(t) : t \in made}
        /\ live_constraints' = live_constraints
                                  \cup UNION {DeclaredConstraints(t) : t \in made}
        /\ IF made = f.missing
           THEN /\ sync' = [sync EXCEPT ![i] =
                              [f EXCEPT !.pc = "inspect", !.t = 1, !.missing = {}]]
                /\ UNCHANGED settled
           ELSE /\ sync' = [sync EXCEPT ![i] =
                              [f EXCEPT !.pc = "done", !.missing = {},
                                        !.outcome = "raised",
                                        !.error = "TableExists"]]
                /\ settled' = FALSE
        /\ UNCHANGED <<collation, nruns, ingestion>>

\* lines 170-174: read the live columns of the table; what follows for the
\* table is decided by this snapshot
Inspect(i) ==
    LET f == sync[i]
        ops == Operations(f.t, GetColumns(Model[f.t].table))
    IN  /\ f.pc = "inspect"
        /\ sync' = [sync EXCEPT ![i] =
                      IF ops = <<>> THEN NextTable(f)
                      ELSE [f EXCEPT !.pc = "execute", !.ops = ops]]
        /\ UNCHANGED <<live_tables, live_columns, live_constraints, collation, nruns, settled,
                       ingestion>>

LiveColumnsOf(table, name) == {c \in live_columns : c.table = table}
\* the live column a statement names
LiveColumn(table, name) ==
    {c \in live_columns : c.table = table /\ c.name = name}

\* lines 216-218: the SQLAlchemyError leaves the `with self.engine.begin()`
\* block (whose ROLLBACK undoes no ALTER: MySQL commits each one as it runs),
\* is logged and raised again
Raise(f, stmt, error) ==
    [f EXCEPT !.pc = "done", !.ops = <<>>, !.outcome = "raised", !.error = error,
              !.log = Append(@, [stmt |-> stmt, ok |-> FALSE,
                                 before |-> LiveColumn(stmt.table, stmt.column)])]

\* lines 221-225: __main__ catches ConnectionError only, the SQLAlchemyError
\* that left Database() ends the process
ProcessCrashed(i) == sync[i].outcome = "raised"

\* after a statement that succeeded: the next one, or the next table
Executed(f, stmt) ==
    LET g == [f EXCEPT !.ops = Tail(@),
                       !.log = Append(@, [stmt |-> stmt, ok |-> TRUE,
                                          before |-> LiveColumn(stmt.table,
                                                                stmt.column)])]
    IN  IF g.ops = <<>> THEN NextTable(g) ELSE g

\* the server takes an ADD COLUMN that names a type, for a column the table
\* does not have yet
AddAccepted(stmt) == stmt.type # "" /\ LiveColumn(stmt.table, stmt.column) = {}

\* line 183: connection.execute(text(add_stmt))
ExecuteAdd(i) ==
    LET f == sync[i]
        stmt == Head(f.ops)
    IN  /\ f.pc = "execute"
        /\ stmt.op = "ADD"
        /\ IF AddAccepted(stmt)
           THEN /\ live_columns' = live_columns \cup
                      {[table |-> stmt.table, name |-> stmt.column,
                        type |-> stmt.type, nullable |-> ~stmt.notnull]}
                /\ sync' = [sync EXCEPT ![i] = Executed(f, stmt)]
                /\ UNCHANGED settled
           ELSE /\ sync' = [sync EXCEPT ![i] =
                              Raise(f, stmt, IF stmt.type = "" THEN "SyntaxError"
                                             ELSE "DuplicateColumn")]
                /\ settled' = FALSE
                /\ UNCHANGED live_columns
        /\ UNCHANGED <<live_tables, live_constraints, collation, nruns, ingestion>>

\* line 213: connection.execute(text(modify_stmt)); the column takes the
\* declared type and nullability
ExecuteModify(i) ==
    LET f == sync[i]
        stmt == Head(f.ops)
    IN  /\ f.pc = "execute"
        /\ stmt.op = "MODIFY"
        /\ LiveColumn(stmt.table, stmt.column) # {}
        /\ live_columns' = (live_columns \ LiveColumn(stmt.table, stmt.column))
              \cup {[table |-> stmt.table, name |-> stmt.column,
                     type |-> stmt.type, nullable |-> ~stmt.notnull]}
        /\ sync' = [sync EXCEPT ![i] = Executed(f, stmt)]
        /\ UNCHANGED <<live_tables, live_constraints, collation, nruns, settled, ingestion>>

\* the lengths of the character types
TypeLength(type) ==
    CASE type = "VARCHAR(100)" -> 100
      [] type = "VARCHAR(200)" -> 200
      [] type = "VARCHAR(500)" -> 500
      [] OTHER -> 0

\* a MODIFY the rows of the table can make fail: a shorter length, NOT NULL
\* on a column that admits NULL
MayConflict(stmt) ==
    \E c \in LiveColumn(stmt.table, stmt.column) :
        \/ TypeLength(stmt.type) < TypeLength(c.type)
        \/ c.nullable /\ stmt.notnull

\* line 213 fails: the existing rows do not fit the declared definition
ModifyConflicts(i) ==
    LET f == sync[i]
        stmt == Head(f.ops)
    IN  /\ f.pc = "execute"
        /\ stmt.op = "MODIFY"
        /\ MayConflict(stmt)
        /\ sync' = [sync EXCEPT ![i] = Raise(f, stmt, "SchemaConflict")]
        /\ settled' = FALSE
        /\ UNCHANGED <<live_tables, live_columns, live_constraints, collation, nruns, ingestion>>

\* lines 168 and 215: the `with self.engine.begin()` block ends, _sync_schema
\* returns
Finish(i) ==
    /\ sync[i].pc = "commit"
    /\ sync' = [sync EXCEPT ![i] = [@ EXCEPT !.pc = "done", !.outcome = "ok"]]
    /\ settled' = \A o \in Instances \ {i} : ~Syncing(o)
    /\ UNCHANGED <<live_tables, live_columns, live_constraints, collation, nruns, ingestion>>

\* the live columns a database may hold of the declared tables when a
\* Database is constructed: declared ones, older definitions of them, and a
\* column the model does not declare
LiveCandidates ==
    {[table |-> "jobs", name |-> "job_title", type |-> "VARCHAR(200)", nullable |-> FALSE],
     [table |-> "jobs", name |-> "job_title", type |-> "VARCHAR(100)", nullable |-> FALSE],
     [table |-> "jobs", name |-> "job_title", type |-> "VARCHAR(200)", nullable |-> TRUE],
     [table |-> "jobs", name |-> "salary_min", type |-> "INTEGER", nullable |-> TRUE],
     [table |-> "jobs", name |-> "legacy_code", type |-> "INTEGER", nullable |-> TRUE],
     [table |-> "skills", name |-> "name", type |-> "VARCHAR(200)", nullable |-> FALSE],
     [table |-> "skills", name |-> "name", type |-> "VARCHAR(500)", nullable |-> FALSE],
     [table |-> "skills", name |-> "created_at", type |-> "DATETIME", nullable |-> TRUE],
     [table |-> "skills", name |-> "created_at", type |-> "DATETIME", nullable |-> FALSE]}

\* the live unique constraints it may hold: the declared one, and one on the
\* column the model does not declare
ConstraintCandidates ==
    {[table |-> "skills", column |-> "name"],
     [table |-> "jobs", column |-> "legacy_code"]}

\* a database before Database() is constructed: any of its tables may be
\* missing, a table that exists has at most one column of a name
SyncInit ==
    /\ EmptyStore
    /\ live_tables \in SUBSET ModelTables
    /\ live_columns \in SUBSET LiveCandidates
    /\ \A c \in live_columns : c.table \in live_tables
    /\ \A c, d \in live_columns :
          c.table = d.table /\ c.name = d.name => c = d
    /\ live_constraints \in SUBSET ConstraintCandidates
    /\ \A u \in live_constraints :
          \E c \in live_columns : c.table = u.table /\ c.name = u.column
    /\ collation \in Collations
    /\ sync = [i \in Instances |-> IdleSync]
    /\ nruns = 0
    /\ settled = FALSE

SyncNext ==
    \E i \in Instances :
        \/ StartSync(i)
        \/ CheckFirst(i)
        \/ CreateAll(i)
        \/ Inspect(i)
        \/ ExecuteAdd(i)
        \/ ExecuteModify(i)
        \/ ModifyConflicts(i)
        \/ Finish(i)

SyncSpec == SyncInit /\ [][SyncNext]_vars

\* ------------------------------------------------------------ the claims
Done(p) == frame[p].pc = "done"

Range(seq) == {seq[k] : k \in 1..Len(seq)}

\* the number of rows, in all five tables, that call c wrote and that exist
RowsWrittenBy(c) ==
    Cardinality({r \in jobs : r.call = c})
    + Cardinality({r \in skills : r.call = c})
    + Cardinality({r \in categories : r.call = c})
    + Cardinality({r \in jobs_skills : r.call = c})
    + Cardinality({r \in jobs_categories : r.call = c})

\* C1 (as claimed): a call in which a statement failed with an unexpected
\* database error has, once it has returned, left no row of any table behind
C1_RollbackOnDbError ==
    \A p \in Procs :
        Done(p) /\ frame[p].cause = "DbError" => RowsWrittenBy(frame[p].call) = 0

\* C2: never two Job rows with one job_url, and a call whose job insert met
\* an existing job_url has written no row at all
C2_OneJobPerUrl ==
    /\ \A j1, j2 \in jobs : j1.job_url = j2.job_url => j1 = j2
    /\ \A p \in Procs :
         Done(p) /\ frame[p].cause = "DuplicateJob"
            => RowsWrittenBy(frame[p].call) = 0

C2_Witness ==
    \E p \in Procs :
        /\ Done(p) /\ frame[p].cause = "DuplicateJob"
        /\ \E j \in jobs : j.job_url = frame[p].job_url /\ j.tx = Committed
        /\ Len(frame[p].skills_names) = 2

C4_SkillRaceRetried ==
    \A p \in Procs :
        Done(p) /\ frame[p].cause = "SkillRace" => frame[p].result.kind = "id"

C6_SkillNameUnique ==
    \A s1, s2 \in skills :
        s1.tx = Committed /\ s2.tx = Committed /\ s1.name = s2.name => s1 = s2

C6_Witness ==
    \E p \in Procs :
        /\ Done(p) /\ frame[p].cause = "SkillRace" /\ ~frame[p].alone
        /\ \E s \in skills :
             s.tx = Committed /\ s.name \in Range(frame[p].skills_names)

\* C7 (as claimed): no call ends with an exception leaving add_job
C7_NeverRaises ==
    \A p \in Procs : Done(p) => frame[p].result # Raised

C9_SharedSkillReused ==
    /\ \A p \in Procs : Done(p) /\ frame[p].alone => frame[p].cause # "SkillRace"
    /\ \A p, q \in Procs :
         /\ p # q
         /\ Done(p) /\ frame[p].result.kind = "id"
         /\ Done(q) /\ frame[q].result.kind = "id"
         => /\ frame[p].job_id # frame[q].job_id
            /\ \A name \in Range(frame[p].skills_names)
                             \cap Range(frame[q].skills_names) :
                 \E s \in skills :
                    /\ {t \in skills : t.name = name} = {s}
                    /\ JobsSkillsUnique(frame[p].job_id, s.id) # {}
                    /\ JobsSkillsUnique(frame[q].job_id, s.id) # {}

C9_Witness ==
    \E p, q \in Procs :
        /\ p # q
        /\ Done(p) /\ frame[p].result.kind = "id" /\ frame[p].alone
        /\ Done(q) /\ frame[q].result.kind = "id" /\ frame[q].alone
        /\ frame[p].job_url # frame[q].job_url
        /\ Range(frame[p].skills_names) \cap Range(frame[q].skills_names) # {}

SyncDone(i) == sync[i].pc = "done"

\* C10 (as claimed): a run that starts after a successful run, with no other
\* run in between or beside it, executes no ADD COLUMN and no MODIFY COLUMN
C10_SecondRunExecutesNothing ==
    \A i \in Instances :
        SyncDone(i) /\ sync[i].after_ok /\ sync[i].alone => sync[i].log = <<>>

\* the declared model has a column of this name in this table
Declared(table, name) ==
    \E t \in 1..Len(Model) :
        /\ Model[t].table = table
        /\ \E k \in 1..Len(Model[t].columns) : Model[t].columns[k].name = name

\* C11: no step of a reconciliation run removes a live table, a live unique
\* constraint or a live column, and a live column the model does not declare
\* keeps its type and nullability
C11_Additive ==
    [][/\ live_tables \subseteq live_tables'
       /\ live_constraints \subseteq live_constraints'
       /\ \A c \in live_columns :
            /\ \E d \in live_columns' : d.table = c.table /\ d.name = c.name
            /\ ~Declared(c.table, c.name) => c \in live_columns']_vars

C11_Witness ==
    \E i \in Instances :
        /\ SyncDone(i)
        /\ \E k \in 1..Len(sync[i].log) :
             /\ sync[i].log[k].ok
             /\ sync[i].log[k].stmt.op = "MODIFY"
             /\ sync[i].log[k].stmt.table = "jobs"
        /\ \E c \in live_columns : c.table = "jobs" /\ c.name = "legacy_code"
        /\ [table |-> "jobs", column |-> "legacy_code"] \in live_constraints

\* C12 (as claimed): once a run has failed, no statement it executed before the
\* failure remains applied: every column it altered is as it was before
C12_FailureLeavesNothingApplied ==
    \A i \in Instances :
        /\ SyncDone(i) /\ sync[i].outcome = "raised"
        /\ \A o \in Instances \ {i} : sync[o].pc = "idle"
        => \A k \in 1..Len(sync[i].log) :
              sync[i].log[k].ok =>
                 LiveColumn(sync[i].log[k].stmt.table, sync[i].log[k].stmt.column)
                    = sync[i].log[k].before

\* C13 (as claimed): a run in which a statement failed has still gone through
\* every table of the model, and the process is not ended by the failure
C13_FailureDoesNotStopOtherTables ==
    \A i \in Instances :
        SyncDone(i) /\ sync[i].error \in {"SyntaxError", "SchemaConflict"}
            => sync[i].t = Len(Model) /\ ~ProcessCrashed(i)

\* the reference diff of table t against a snapshot: an AddColumn carrying
\* the declared definition for each declared column the snapshot lacks, then
\* an AlterColumnType for each declared column whose type string or nullable
\* flag differs from the snapshot's
ReferenceDiff(t, db_columns) ==
    LET cols == Model[t].columns
        absent == SelectSeq(cols, LAMBDA c : c.name \notin DOMAIN db_columns)
        differs == SelectSeq(cols, LAMBDA c :
                      /\ c.name \in DOMAIN db_columns
                      /\ \/ db_columns[c.name].type # <<c.type>>
                         \/ db_columns[c.name].nullable # c.nullable)
    IN  [k \in 1..Len(absent) |->
            [op |-> "ADD", table |-> Model[t].table, column |-> absent[k].name,
             type |-> absent[k].type, notnull |-> ~absent[k].nullable]]
        \o [k \in 1..Len(differs) |->
            [op |-> "MODIFY", table |-> Model[t].table, column |-> differs[k].name,
             type |-> differs[k].type, notnull |-> ~differs[k].nullable]]

\* C14 (as claimed): for the table a run is about to reconcile, the statements
\* its two loops issue are the reference diff of the table's live columns
C14_OperationsEqualReferenceDiff ==
    \A i \in Instances :
        sync[i].pc = "inspect" =>
            LET db_columns == GetColumns(Model[sync[i].t].table)
            IN  Operations(sync[i].t, db_columns)
                    = ReferenceDiff(sync[i].t, db_columns)

\* the statements of run i for table t: those it has executed, then those it
\* is still to execute
StatementsOf(i, t) ==
    LET done == SelectSeq(sync[i].log, LAMBDA e : e.stmt.table = Model[t].table)
    IN  [k \in 1..Len(done) |-> done[k].stmt]
        \o (IF sync[i].t = t THEN sync[i].ops ELSE <<>>)

\* the place of a statement in the order claimed: the ADD COLUMNs in
\* declaration order, then the MODIFY COLUMNs in declaration order
Rank(t, stmt) ==
    LET cols == Model[t].columns
        k == CHOOSE j \in 1..Len(cols) : cols[j].name = stmt.column
    IN  IF stmt.op = "ADD" THEN k ELSE Len(cols) + k

C16_ModifyOnlyWidens ==
    \A i \in Instances :
        \A k \in 1..Len(sync[i].log) :
            LET e == sync[i].log[k]
            IN  e.ok /\ e.stmt.op = "MODIFY" =>
                   \A c \in e.before :
                      /\ TypeLength(e.stmt.type) >= TypeLength(c.type)
                      /\ c.nullable => ~e.stmt.notnull

\* every declared column is live, once, with its declared type and nullability
Converged ==
    \A t \in 1..Len(Model) :
        \A c \in DeclaredColumns(t) : LiveColumn(c.table, c.name) = {c}

\* C18 (as claimed): no run fails on a table or a column that another
\* instance created while it ran, and once two runs that overlapped have both
\* succeeded the live schema holds every declared column as declared
C18_ConcurrentRunsDoNotInterfere ==
    /\ \A i \in Instances :
          SyncDone(i) => sync[i].error \notin {"TableExists", "DuplicateColumn"}
    /\ (\A i \in Instances :
          SyncDone(i) /\ sync[i].outcome = "ok" /\ ~sync[i].alone) => Converged

\* the list holds some entry more than once
HasRepeats(seq) == Cardinality(Range(seq)) < Len(seq)

\* the ways a call fails that repeated entries have no part in
OtherFailures ==
    {"DbError", "CommitError", "ConnectError", "KeyError", "DuplicateJob",
     "SkillRace", "CategoryRace", "Deadlock"}

Position(f) ==
    LET ns == Len(f.skills_names)
        nc == Len(f.categories_data)
    IN  CASE f.pc = "insert_job" -> 0
          [] f.pc = "select_skill" -> 3 * (f.i - 1) + 1
          [] f.pc = "insert_skill" -> 3 * (f.i - 1) + 2
          [] f.pc = "insert_job_skill" -> 3 * (f.i - 1) + 3
          [] f.pc = "select_cat" -> 3 * ns + 3 * (f.i - 1) + 1
          [] f.pc = "insert_cat" -> 3 * ns + 3 * (f.i - 1) + 2
          [] f.pc = "insert_job_cat" -> 3 * ns + 3 * (f.i - 1) + 3
          [] f.pc = "exit" -> 3 * (ns + nc) + 1
          [] OTHER -> 3 * (ns + nc) + 2

\* every step of a call under way takes it further
Forward ==
    \A p \in Procs :
        Active(p) /\ [frame'[p] EXCEPT !.alone = frame[p].alone] # frame[p]
            => Position(frame'[p]) > Position(frame[p])

\* no transaction open and no connection held by a caller that is not in a call
Released ==
    \A p \in Procs :
        ~Active(p) =>
            /\ ~frame[p].conn
            /\ \A r \in jobs \cup skills \cup categories \cup jobs_skills
                          \cup jobs_categories : r.tx # p

\* C19: every step of a call moves it on through the job insert and one
\* lookup, entity insert and edge insert per list entry, never back; every
\* call under way ends; and whenever a call has ended, however it ended, its
\* transaction is over and its connection released
C19_TerminatesAndReleases ==
    /\ [][Forward]_vars
    /\ []Released
    /\ \A p \in Procs : Active(p) ~> Done(p)

C19_Witness ==
    \E p, q \in Procs :
        /\ Done(p) /\ frame[p].cause = "Deadlock" /\ frame[p].result = ReturnNone
        /\ Done(q) /\ frame[q].result.kind = "id" /\ Len(frame[q].skills_names) = 2

====
